---- MODULE Spec2Model ----
(***************************************************************************)
(* ChillStateManager (src/chillmcp/state.py): two bounded counters, one    *)
(* threading.Lock, two self-rescheduling threading.Timer chains, and the   *)
(* operations take_a_break, current_state and shutdown, as a state machine *)
(* whose steps are the points at which threads can interleave.             *)
(***************************************************************************)
EXTENDS Integers, Sequences, FiniteSets, TLC

(* ----- settings (src/chillmcp/config.py) ----- *)
DEFAULT_STRESS_LEVEL == 50
MIN_STRESS_LEVEL == 0
MAX_STRESS_LEVEL == 100
DEFAULT_BOSS_ALERT_LEVEL == 0
MIN_BOSS_ALERT_LEVEL == 0
MAX_BOSS_ALERT_LEVEL == 5
DEFAULT_BOSS_ALERTNESS == 50
MIN_BOSS_ALERTNESS == 0
MAX_BOSS_ALERTNESS == 100
MAX_ALERT_DELAY == 20

(* random.randint(RandLow, RandHigh), state.py lines 110 and 118 *)
RandLow == 1
RandHigh == 100

(* ----- bounds of the model ----- *)
NCallers == 2
MaxCalls == 2
MaxFires == 1
NSlots == 2
DelaySteps == 2
NDraws == 3

Callers == 1..NCallers
Kinds == {"stress", "alert"}
Slots == 1..NSlots

(* Every value randint(1, 100) can give. *)
AllDraws == RandLow..RandHigh

(* The draws taken for the stress reduction where several calls and the tickers
   interleave: NDraws of the values of randint(1, 100), evenly spread from the lowest to
   the highest; where the tickers make up for what the calls took off, the NDraws lowest
   values (a stress_level takes as many ticks to come back as the draw was). For the
   escalation roll, whose effect is that of the comparison with
   boss_alertness alone: both ends and the values on either side of the default
   alertness, which give both outcomes wherever both are possible. *)
StressDraws == {RandLow + (i * (RandHigh - RandLow)) \div (NDraws - 1) : i \in 0..(NDraws - 1)}
LowDraws == RandLow..(RandLow + NDraws - 1)
AlertDraws == {RandLow, DEFAULT_BOSS_ALERTNESS, DEFAULT_BOSS_ALERTNESS + 1, RandHigh}

(* Constructor arguments for boss_alertness: below the range, inside it, above it. *)
AlertnessArgs == {MIN_BOSS_ALERTNESS - 1, DEFAULT_BOSS_ALERTNESS, MAX_BOSS_ALERTNESS + 1}

None == <<>>
Free == <<"free", 0>>

VARIABLES
  stress_level,      \* self._stress_level
  boss_alert_level,  \* self._boss_alert_level
  boss_alertness,    \* self._boss_alertness
  arg_alertness,     \* the boss_alertness argument the constructor was given
  is_running,        \* self._is_running
  lock,              \* holder of self._lock, or Free
  tm,                \* tm[k][s]: the Timer objects of kind k: [pc, fin]
  tm_field,          \* tm_field[k]: the slot of the Timer self._stress_timer / self._boss_alert_timer refers to
  fires,             \* timer expiries so far, of those that MaxFires bounds
  tb,                \* tb[c]: the take_a_break call of caller c
  calls,             \* take_a_break calls started so far
  rd,                \* the current_state reader
  sd,                \* position of the shutdown caller
  sd_count           \* shutdown calls that have returned: 0, 1, or 2 for two and more

vars == <<stress_level, boss_alert_level, boss_alertness, arg_alertness, is_running,
          lock, tm, tm_field, fires, tb, calls, rd, sd, sd_count>>

(* ----- pure helpers ----- *)
Max2(a, b) == IF a >= b THEN a ELSE b
Min2(a, b) == IF a <= b THEN a ELSE b

(* a clamp that forgets the upper end *)
clamp_no_upper(val, lower, upper) == Max2(lower, val)

(* line 54-55 *)
clamp(val, lower, upper) == Max2(lower, Min2(upper, val))

(* ticks that forget their bound *)
StressAfterTick_unbounded(s) == s + 1
AlertAfterTick_unbounded(a) == a - 1

(* lines 69-70 *)
StressAfterTick(s) == IF s < MAX_STRESS_LEVEL THEN s + 1 ELSE s

(* lines 76-77 *)
AlertAfterTick(a) == IF a > MIN_BOSS_ALERT_LEVEL THEN a - 1 ELSE a

(* a gate that opens one level late, and one that closes one level early *)
MustDelay_above(a) == a > MAX_BOSS_ALERT_LEVEL
MustDelay_early(a) == a >= MAX_BOSS_ALERT_LEVEL - 1

(* line 106 *)
MustDelay(a) == a >= MAX_BOSS_ALERT_LEVEL

(* a reduction that is not clamped *)
StressAfterBreak_unclamped(s, r) == s - r

(* lines 111-115 *)
StressAfterBreak(s, r) == clamp(s - r, MIN_STRESS_LEVEL, MAX_STRESS_LEVEL)

(* an escalation that is not clamped *)
AlertAfterBreak_unclamped(a, roll, alertness) == IF roll <= alertness THEN a + 1 ELSE a

(* a roll compared one off, either way *)
AlertAfterBreak_le_plus(a, roll, alertness) ==
  IF roll <= alertness + 1
  THEN clamp(a + 1, MIN_BOSS_ALERT_LEVEL, MAX_BOSS_ALERT_LEVEL)
  ELSE a
AlertAfterBreak_lt(a, roll, alertness) ==
  IF roll < alertness
  THEN clamp(a + 1, MIN_BOSS_ALERT_LEVEL, MAX_BOSS_ALERT_LEVEL)
  ELSE a

(* lines 118-123 *)
AlertAfterBreak(a, roll, alertness) ==
  IF roll <= alertness
  THEN clamp(a + 1, MIN_BOSS_ALERT_LEVEL, MAX_BOSS_ALERT_LEVEL)
  ELSE a

(* a callback that re-arms whatever the flag, and one that never does *)
Rearms_always(running) == TRUE
Rearms_never(running) == FALSE

(* lines 71 and 78: the callback's re-arm decision, from the flag it read *)
Rearms(running) == running

IdleCall ==
  [pc |-> "idle", at_call |-> 0, late |-> 0, found |-> None, slept |-> 0, elapsed |-> 0,
   r |-> 0, roll |-> 0, ret |-> None]
IdleRead == [pc |-> "idle", snap |-> None]
NoTimer == [pc |-> "free", fin |-> FALSE]
ArmedTimer == [pc |-> "armed", fin |-> FALSE]

(* ----- construction (lines 27-52) ----- *)
init(arg, s0, a0) ==
  /\ stress_level = s0
  /\ boss_alert_level = a0
  /\ arg_alertness = arg
  /\ boss_alertness = clamp(arg, MIN_BOSS_ALERTNESS, MAX_BOSS_ALERTNESS)
  /\ is_running = TRUE
  /\ lock = Free
  /\ tm = [k \in Kinds |-> [s \in Slots |-> IF s = 1 THEN ArmedTimer ELSE NoTimer]]
  /\ tm_field = [k \in Kinds |-> 1]
  /\ fires = 0
  /\ tb = [c \in Callers |-> IdleCall]
  /\ calls = 0
  /\ rd = IdleRead
  /\ sd = "idle"
  /\ sd_count = 0

(* A freshly constructed manager. *)
InitFresh == \E arg \in AlertnessArgs : init(arg, DEFAULT_STRESS_LEVEL, DEFAULT_BOSS_ALERT_LEVEL)

(* A manager that has run for a while and has both counters at their upper ends
   (a boss_alert_level above 0 needs a boss_alertness above 0). *)
InitLater ==
  \E arg \in AlertnessArgs :
    /\ arg > MIN_BOSS_ALERTNESS
    /\ init(arg, MAX_STRESS_LEVEL, MAX_BOSS_ALERT_LEVEL)

Init == InitFresh \/ InitLater

(* A manager in any state its counters can have come to: every stress_level, and
   boss_alert_level at either end (a boss_alert_level above 0 needs a boss_alertness
   above 0). *)
InitAny ==
  \E arg \in AlertnessArgs, s0 \in MIN_STRESS_LEVEL..MAX_STRESS_LEVEL,
     a0 \in {MIN_BOSS_ALERT_LEVEL, MAX_BOSS_ALERT_LEVEL} :
    /\ a0 > MIN_BOSS_ALERT_LEVEL => arg > MIN_BOSS_ALERTNESS
    /\ init(arg, s0, a0)

(* ----- threading.Timer chains (lines 57-79) ----- *)
(* The Timer objects of a kind that have a thread are held in the lowest slots, the
   oldest first (the program gives them no order); tm_field[k] is 0 once the thread of
   the Timer the field refers to has ended. *)
SetTimer(k, s, v) == tm' = [tm EXCEPT ![k][s] = v]

LiveSlots(f) == {s \in Slots : f[s].pc # "free"}
Rank(f, s) == Cardinality({u \in LiveSlots(f) : u <= s})
Packed(f) ==
  [i \in Slots |->
     IF i <= Cardinality(LiveSlots(f))
     THEN f[CHOOSE s \in LiveSlots(f) : Rank(f, s) = i]
     ELSE NoTimer]

(* the thread of the timer in slot s ends *)
EndTimer(k, s) ==
  LET f == [tm[k] EXCEPT ![s] = NoTimer]
  IN /\ tm' = [tm EXCEPT ![k] = Packed(f)]
     /\ tm_field' = [tm_field EXCEPT ![k] = IF @ \in LiveSlots(f) THEN Rank(f, @) ELSE 0]

FreeSlot(k) == CHOOSE s \in Slots : tm[k][s].pc = "free" /\ \A u \in Slots : tm[k][u].pc = "free" => s <= u

(* Timer.run: the interval elapses with the timer not cancelled, the callback starts.
   Where the expiries are not free they are counted, and no timer expires once MaxFires
   have. *)
TimerExpire(k, s, free) ==
  /\ tm[k][s].pc = "armed"
  /\ ~tm[k][s].fin
  /\ free \/ fires < MaxFires
  /\ SetTimer(k, s, [pc |-> "acquire", fin |-> FALSE])
  /\ fires' = IF free THEN fires ELSE fires + 1
  /\ UNCHANGED <<stress_level, boss_alert_level, boss_alertness, arg_alertness, is_running,
                 lock, tm_field, tb, calls, rd, sd, sd_count>>

(* Timer.run: the timer was cancelled before its interval elapsed; its thread ends. *)
TimerCancelled(k, s) ==
  /\ tm[k][s].pc = "armed"
  /\ tm[k][s].fin
  /\ EndTimer(k, s)
  /\ UNCHANGED <<stress_level, boss_alert_level, boss_alertness, arg_alertness, is_running,
                 lock, fires, tb, calls, rd, sd, sd_count>>

(* lines 68-70 and 75-77: the with block; the callback takes the lock when it is
   free, updates its counter and releases the lock *)
TickMutate(k, s) ==
  /\ tm[k][s].pc = "acquire"
  /\ lock = Free
  /\ IF k = "stress"
     THEN /\ stress_level' = StressAfterTick(stress_level)
          /\ UNCHANGED boss_alert_level
     ELSE /\ boss_alert_level' = AlertAfterTick(boss_alert_level)
          /\ UNCHANGED stress_level
  /\ SetTimer(k, s, [pc |-> "check", fin |-> FALSE])
  /\ UNCHANGED <<boss_alertness, arg_alertness, is_running,
                 lock, tm_field, fires, tb, calls, rd, sd, sd_count>>

(* lines 71 and 78: if self._is_running, read outside the lock *)
TickCheck(k, s) ==
  /\ tm[k][s].pc = "check"
  /\ IF Rearms(is_running)
     THEN SetTimer(k, s, [pc |-> "rearm", fin |-> FALSE]) /\ UNCHANGED tm_field
     ELSE EndTimer(k, s)
  /\ UNCHANGED <<stress_level, boss_alert_level, boss_alertness, arg_alertness, is_running,
                 lock, fires, tb, calls, rd, sd, sd_count>>

(* lines 72 and 79, _start_stress_timer / _start_boss_alert_timer (lines 57-65): a new
   Timer is constructed, stored in the field and started. The new timer's thread runs
   from here on, while the callback that started it has yet to return. *)
TickRearm(k, s) ==
  /\ tm[k][s].pc = "rearm"
  /\ \E n \in Slots : tm[k][n].pc = "free"
  /\ tm' = [tm EXCEPT ![k][s] = [pc |-> "return", fin |-> FALSE], ![k][FreeSlot(k)] = ArmedTimer]
  /\ tm_field' = [tm_field EXCEPT ![k] = FreeSlot(k)]
  /\ UNCHANGED <<stress_level, boss_alert_level, boss_alertness, arg_alertness, is_running,
                 lock, fires, tb, calls, rd, sd, sd_count>>

(* the callback returns from _start_stress_timer / _start_boss_alert_timer and from
   itself, and its thread ends *)
TickReturn(k, s) ==
  /\ tm[k][s].pc = "return"
  /\ EndTimer(k, s)
  /\ UNCHANGED <<stress_level, boss_alert_level, boss_alertness, arg_alertness, is_running,
                 lock, fires, tb, calls, rd, sd, sd_count>>

increase_stress(s) ==
  \/ TickMutate("stress", s)
  \/ TickCheck("stress", s)
  \/ TickRearm("stress", s)
  \/ TickReturn("stress", s)

decrease_boss_alert(s) ==
  \/ TickMutate("alert", s)
  \/ TickCheck("alert", s)
  \/ TickRearm("alert", s)
  \/ TickReturn("alert", s)

(* ----- shutdown (lines 81-86) ----- *)
(* Timer.cancel() sets the timer's finished event. The event is read only by a timer
   that has not yet begun its callback, so it is recorded only for such a timer. *)
Cancelled(k) ==
  IF tm_field[k] \in Slots /\ tm[k][tm_field[k]].pc = "armed"
  THEN [tm EXCEPT ![k][tm_field[k]].fin = TRUE]
  ELSE tm

(* line 82 *)
ShutdownFlag ==
  /\ sd = "idle"
  /\ is_running' = FALSE
  /\ sd' = "cancel_stress"
  /\ UNCHANGED <<stress_level, boss_alert_level, boss_alertness, arg_alertness,
                 lock, tm, tm_field, fires, tb, calls, rd, sd_count>>

(* lines 83-84 *)
ShutdownCancelStress ==
  /\ sd = "cancel_stress"
  /\ tm' = Cancelled("stress")
  /\ sd' = "cancel_alert"
  /\ UNCHANGED <<stress_level, boss_alert_level, boss_alertness, arg_alertness, is_running,
                 lock, tm_field, fires, tb, calls, rd, sd_count>>

(* lines 85-86, and the return *)
ShutdownCancelAlert ==
  /\ sd = "cancel_alert"
  /\ tm' = Cancelled("alert")
  /\ sd' = "idle"
  /\ sd_count' = IF sd_count = 0 THEN 1 ELSE 2
  /\ UNCHANGED <<stress_level, boss_alert_level, boss_alertness, arg_alertness, is_running,
                 lock, tm_field, fires, tb, calls, rd>>

shutdown == ShutdownFlag \/ ShutdownCancelStress \/ ShutdownCancelAlert

(* ----- current_state (lines 88-94) ----- *)
(* The reader's record holds its position and the snapshot it builds. A reader that
   keeps its snapshot (keep) still has it after the call has returned. *)

(* a read of stress_level that does not take the lock *)
ReadStress_unlocked ==
  /\ rd.pc = "idle"
  /\ rd' = [pc |-> "alert", snap |-> <<stress_level>>]
  /\ UNCHANGED <<stress_level, boss_alert_level, boss_alertness, arg_alertness, is_running,
                 lock, tm, tm_field, fires, tb, calls, sd, sd_count>>

(* lines 90-92: the lock is taken when it is free and self._stress_level is read *)
ReadStress ==
  /\ rd.pc = "idle"
  /\ lock = Free
  /\ lock' = <<"rd", 0>>
  /\ rd' = [pc |-> "alert", snap |-> <<stress_level>>]
  /\ UNCHANGED <<stress_level, boss_alert_level, boss_alertness, arg_alertness, is_running,
                 tm, tm_field, fires, tb, calls, sd, sd_count>>

(* lines 91-94: self._boss_alert_level is read and the ChillState built *)
ReadAlert ==
  /\ rd.pc = "alert"
  /\ rd' = [pc |-> "exit", snap |-> <<rd.snap[1], boss_alert_level>>]
  /\ UNCHANGED <<stress_level, boss_alert_level, boss_alertness, arg_alertness, is_running,
                 lock, tm, tm_field, fires, tb, calls, sd, sd_count>>

(* the with block ends: the lock is released and the snapshot handed to the caller *)
ReadReturn(keep) ==
  /\ rd.pc = "exit"
  /\ lock = <<"rd", 0>>
  /\ rd' = IF keep THEN [rd EXCEPT !.pc = "idle"] ELSE IdleRead
  /\ lock' = Free
  /\ UNCHANGED <<stress_level, boss_alert_level, boss_alertness, arg_alertness, is_running,
                 tm, tm_field, fires, tb, calls, sd, sd_count>>

current_state(keep) == ReadStress \/ ReadAlert \/ ReadReturn(keep)

(* ----- take_a_break (lines 96-125) ----- *)
(* A call's record holds its position. When the calls are observed (obs) it also
   holds: at_call, the boss_alert_level when the call was invoked; found, the pair it
   found when it took the lock; slept, the time it has slept itself; elapsed, the time
   that has passed since its invocation (only the delays take time); late, how far
   into the delay of the call that holds the lock it was invoked; ret, the pair it
   returns. When the records are kept (obs and keep) it holds the two draws as well,
   and the caller keeps the record after the call has returned. *)
SetCall(c, v) == tb' = [tb EXCEPT ![c] = v]

(* the moments of a delay in progress at which a call can be invoked, in time units
   since the delay began: its beginning, its end and the DelaySteps - 1 moments that
   divide it evenly *)
Lateness(obs) ==
  IF obs /\ \E d \in Callers : tb[d].pc = "sleep"
  THEN {(i * MAX_ALERT_DELAY) \div DelaySteps : i \in 0..DelaySteps}
  ELSE {0}

(* a caller invokes take_a_break(); idle callers are alike, so the next call is made by
   the first of them *)
BreakCall(c, obs) ==
  /\ tb[c].pc = "idle"
  /\ \A d \in Callers : d < c => tb[d].pc # "idle"
  /\ calls < MaxCalls
  /\ calls' = calls + 1
  /\ \E l \in Lateness(obs) :
       SetCall(c, [IdleCall EXCEPT !.pc = "acquire",
                                   !.at_call = IF obs THEN boss_alert_level ELSE @,
                                   !.late = l])
  /\ UNCHANGED <<stress_level, boss_alert_level, boss_alertness, arg_alertness, is_running,
                 lock, tm, tm_field, fires, rd, sd, sd_count>>

(* lines 110-125, run with the lock held: the stress reduction with draw r, the
   escalation roll, and the pair the return statement builds *)
StressNow(r) == StressAfterBreak(stress_level, r)
AlertNow(roll) == AlertAfterBreak(boss_alert_level, roll, boss_alertness)

Mutated(r, roll) ==
  /\ stress_level' = StressNow(r)
  /\ boss_alert_level' = AlertNow(roll)

AtExit(rec, obs, keep, r, roll) ==
  [rec EXCEPT !.pc = "exit",
              !.r = IF obs /\ keep THEN r ELSE @,
              !.roll = IF obs /\ keep THEN roll ELSE @,
              !.ret = IF obs THEN <<StressNow(r), AlertNow(roll)>> ELSE @]

Found(rec, obs) == [rec EXCEPT !.found = IF obs THEN <<stress_level, boss_alert_level>> ELSE @]

(* a delay that is slept twice over *)
Passed_twice(rec, obs, dt) == IF obs THEN [rec EXCEPT !.elapsed = @ + dt + dt] ELSE rec

Passed(rec, obs, dt) == IF obs THEN [rec EXCEPT !.elapsed = @ + dt] ELSE rec

(* lines 104-125 with the gate of line 106 open: the lock is taken when it is free and
   the counters are updated *)
BreakEnterOn(c, obs, keep, draws) ==
  /\ tb[c].pc = "acquire"
  /\ lock = Free
  /\ ~MustDelay(boss_alert_level)
  /\ lock' = <<"tb", c>>
  /\ \E r \in draws, roll \in AlertDraws :
       /\ Mutated(r, roll)
       /\ SetCall(c, AtExit(Found(tb[c], obs), obs, keep, r, roll))
  /\ UNCHANGED <<boss_alertness, arg_alertness, is_running,
                 tm, tm_field, fires, calls, rd, sd, sd_count>>

BreakEnter(c, obs, keep) == BreakEnterOn(c, obs, keep, StressDraws)

(* a delay that is slept without the lock *)
BreakDelay_unlocked(c, obs) ==
  /\ tb[c].pc = "acquire"
  /\ MustDelay(boss_alert_level)
  /\ SetCall(c, [Found(tb[c], obs) EXCEPT !.pc = "sleep"])
  /\ UNCHANGED <<stress_level, boss_alert_level, boss_alertness, arg_alertness, is_running,
                 lock, tm, tm_field, fires, calls, rd, sd, sd_count>>

(* lines 104-107 with the gate closed: the lock is taken when it is free and
   time.sleep(MAX_ALERT_DELAY) begins *)
BreakDelay(c, obs) ==
  /\ tb[c].pc = "acquire"
  /\ lock = Free
  /\ MustDelay(boss_alert_level)
  /\ lock' = <<"tb", c>>
  /\ SetCall(c, [Found(tb[c], obs) EXCEPT !.pc = "sleep"])
  /\ UNCHANGED <<stress_level, boss_alert_level, boss_alertness, arg_alertness, is_running,
                 tm, tm_field, fires, calls, rd, sd, sd_count>>

(* lines 107-125: the sleep ends after MAX_ALERT_DELAY, of which the part since its
   invocation has then passed for every call that waits, and the counters are updated;
   the gate is not evaluated again *)
BreakWakeOn(c, obs, keep, draws) ==
  /\ tb[c].pc = "sleep"
  /\ lock = <<"tb", c>>
  /\ \E r \in draws, roll \in AlertDraws :
       /\ Mutated(r, roll)
       /\ tb' = [d \in Callers |->
                  IF d = c
                  THEN AtExit([Passed(tb[c], obs, MAX_ALERT_DELAY) EXCEPT
                                 !.slept = IF obs THEN @ + MAX_ALERT_DELAY ELSE @],
                              obs, keep, r, roll)
                  ELSE IF tb[d].pc = "acquire"
                       THEN [Passed(tb[d], obs, MAX_ALERT_DELAY - tb[d].late) EXCEPT !.late = 0]
                       ELSE tb[d]]
  /\ UNCHANGED <<boss_alertness, arg_alertness, is_running,
                 lock, tm, tm_field, fires, calls, rd, sd, sd_count>>

BreakWake(c, obs, keep) == BreakWakeOn(c, obs, keep, StressDraws)

(* a return that leaves the lock taken *)
BreakReturn_keeps_lock(c, obs, keep) ==
  /\ tb[c].pc = "exit"
  /\ lock = <<"tb", c>>
  /\ SetCall(c, IF obs /\ keep THEN [tb[c] EXCEPT !.pc = "returned"] ELSE IdleCall)
  /\ UNCHANGED <<stress_level, boss_alert_level, boss_alertness, arg_alertness, is_running,
                 lock, tm, tm_field, fires, calls, rd, sd, sd_count>>

(* the with block ends: the lock is released and the pair handed to the caller *)
BreakReturn(c, obs, keep) ==
  /\ tb[c].pc = "exit"
  /\ lock = <<"tb", c>>
  /\ lock' = Free
  /\ SetCall(c, IF obs /\ keep THEN [tb[c] EXCEPT !.pc = "returned"] ELSE IdleCall)
  /\ UNCHANGED <<stress_level, boss_alert_level, boss_alertness, arg_alertness, is_running,
                 tm, tm_field, fires, calls, rd, sd, sd_count>>

(* The with block of lines 104-125 statement by statement, for the calls whose gate is
   open: what BreakEnter does in one step, a thread does in the four steps BreakLock,
   BreakReduce, BreakRoll and BreakPair, between any two of which the other threads
   can run. *)

(* a with statement that enters without waiting for the lock *)
BreakLock_unguarded(c, obs) ==
  /\ tb[c].pc = "acquire"
  /\ ~MustDelay(boss_alert_level)
  /\ lock' = <<"tb", c>>
  /\ SetCall(c, [Found(tb[c], obs) EXCEPT !.pc = "reduce"])
  /\ UNCHANGED <<stress_level, boss_alert_level, boss_alertness, arg_alertness, is_running,
                 tm, tm_field, fires, calls, rd, sd, sd_count>>

(* lines 104-106: the lock is taken when it is free, and the gate is found open *)
BreakLock(c, obs) ==
  /\ tb[c].pc = "acquire"
  /\ lock = Free
  /\ ~MustDelay(boss_alert_level)
  /\ lock' = <<"tb", c>>
  /\ SetCall(c, [Found(tb[c], obs) EXCEPT !.pc = "reduce"])
  /\ UNCHANGED <<stress_level, boss_alert_level, boss_alertness, arg_alertness, is_running,
                 tm, tm_field, fires, calls, rd, sd, sd_count>>

(* lines 110-115: the draw, and stress_level read, reduced, clamped and stored *)
BreakReduce(c, obs, keep) ==
  /\ tb[c].pc = "reduce"
  /\ \E r \in StressDraws :
       /\ stress_level' = StressNow(r)
       /\ SetCall(c, [tb[c] EXCEPT !.pc = "roll", !.r = IF obs /\ keep THEN r ELSE @])
  /\ UNCHANGED <<boss_alert_level, boss_alertness, arg_alertness, is_running,
                 lock, tm, tm_field, fires, calls, rd, sd, sd_count>>

(* lines 118-123: the roll, and boss_alert_level raised and clamped if the roll is at
   most boss_alertness *)
BreakRoll(c, obs, keep) ==
  /\ tb[c].pc = "roll"
  /\ \E roll \in AlertDraws :
       /\ boss_alert_level' = AlertNow(roll)
       /\ SetCall(c, [tb[c] EXCEPT !.pc = "pair", !.roll = IF obs /\ keep THEN roll ELSE @])
  /\ UNCHANGED <<stress_level, boss_alertness, arg_alertness, is_running,
                 lock, tm, tm_field, fires, calls, rd, sd, sd_count>>

(* line 125: the return statement reads both counters into the pair *)
BreakPair(c, obs) ==
  /\ tb[c].pc = "pair"
  /\ SetCall(c, [tb[c] EXCEPT !.pc = "exit",
                              !.ret = IF obs THEN <<stress_level, boss_alert_level>> ELSE @])
  /\ UNCHANGED <<stress_level, boss_alert_level, boss_alertness, arg_alertness, is_running,
                 lock, tm, tm_field, fires, calls, rd, sd, sd_count>>

take_a_break(c, obs, keep) ==
  \/ BreakCall(c, obs)
  \/ BreakEnter(c, obs, keep)
  \/ BreakDelay(c, obs)
  \/ BreakWake(c, obs, keep)
  \/ BreakReturn(c, obs, keep)

(* ----- the system ----- *)
Tickers(free) ==
  \/ \E k \in Kinds, s \in Slots : TimerExpire(k, s, free)
  \/ \E s \in Slots : increase_stress(s)
  \/ \E s \in Slots : decrease_boss_alert(s)

Next ==
  \/ \E c \in Callers : take_a_break(c, FALSE, FALSE)
  \/ current_state(FALSE)
  \/ shutdown
  \/ \E k \in Kinds, s \in Slots : TimerCancelled(k, s)
  \/ Tickers(FALSE)

(* Every operation of the manager, from construction or from the later state. *)
Spec == Init /\ [][Next]_vars

(* Fair scheduling: a thread that holds the lock goes on and releases it, and a call
   that waits for the lock gets it if the lock is free again and again. *)
Fairness ==
  /\ \A c \in Callers :
       /\ SF_vars(BreakEnter(c, FALSE, FALSE) \/ BreakDelay(c, FALSE))
       /\ WF_vars(BreakWake(c, FALSE, FALSE))
       /\ WF_vars(BreakReturn(c, FALSE, FALSE))
  /\ WF_vars(ReadAlert)
  /\ WF_vars(ReadReturn(FALSE))

(* The threads that can hold the lock across steps, and shutdown(). *)
NextLive ==
  \/ \E c \in Callers : take_a_break(c, FALSE, FALSE)
  \/ current_state(FALSE)
  \/ shutdown
  \/ \E k \in Kinds, s \in Slots : TimerCancelled(k, s)

LiveSpec == Init /\ [][NextLive]_vars /\ Fairness

(* The calls of take_a_break() observed, with both tickers running. *)
NextWatch ==
  \/ \E c \in Callers : take_a_break(c, TRUE, FALSE)
  \/ Tickers(FALSE)

SpecWatch == Init /\ [][NextWatch]_vars

(* Concurrent calls on a fresh manager, each caller calling once and keeping its record,
   the calls taken statement by statement. The gate stays open: boss_alert_level reaches
   5 only with the fifth call. *)
NextBreaks ==
  \E c \in Callers :
    \/ BreakCall(c, TRUE)
    \/ BreakLock(c, TRUE)
    \/ BreakReduce(c, TRUE, TRUE)
    \/ BreakRoll(c, TRUE, TRUE)
    \/ BreakPair(c, TRUE)
    \/ BreakReturn(c, TRUE, TRUE)

SpecBreaks == InitFresh /\ [][NextBreaks]_vars

(* A reader that keeps its snapshots, with the calls and both tickers at work. *)
NextRead ==
  \/ current_state(TRUE)
  \/ \E c \in Callers : take_a_break(c, FALSE, FALSE)
  \/ Tickers(FALSE)

SpecRead == Init /\ [][NextRead]_vars

(* The calls of take_a_break() observed, with the reader and both tickers at work. *)
NextGuard ==
  \/ \E c \in Callers : take_a_break(c, TRUE, FALSE)
  \/ current_state(FALSE)
  \/ Tickers(FALSE)

SpecGuard == Init /\ [][NextGuard]_vars

(* One call of take_a_break() with any of the draws of randint(1, 100) for the stress
   reduction, from any state of the counters; the caller keeps the record of the
   call. *)
NextReduce ==
  \/ BreakCall(1, TRUE)
  \/ BreakEnterOn(1, TRUE, TRUE, AllDraws)
  \/ BreakDelay(1, TRUE)
  \/ BreakWakeOn(1, TRUE, TRUE, AllDraws)
  \/ BreakReturn(1, TRUE, TRUE)

SpecReduce == InitAny /\ [][NextReduce]_vars

(* Fair scheduling of the timer threads: a timer thread of kind k goes on (its interval
   elapses, it finds itself cancelled, it reads the flag, it re-arms), and a callback
   that waits for the lock gets it if the lock is free again and again. *)
TickerRuns(k, free) ==
  \E s \in Slots :
    \/ TimerExpire(k, s, free) \/ TimerCancelled(k, s)
    \/ TickCheck(k, s) \/ TickRearm(k, s) \/ TickReturn(k, s)

FairMutate == \A k \in Kinds : SF_vars(\E s \in Slots : TickMutate(k, s))

(* shutdown() among the tickers, with the reader taking the lock again and again (the
   tickers' decisions do not depend on the counters, and to a callback a call of
   take_a_break() is one more holder of the lock). A timer that is armed after
   shutdown() has been called expires whatever the count of expiries. *)
NextQuiesce ==
  \/ current_state(FALSE)
  \/ shutdown
  \/ Tickers(~is_running)
  \/ \E k \in Kinds, s \in Slots : TimerCancelled(k, s)

SpecQuiesce ==
  /\ Init /\ [][NextQuiesce]_vars
  /\ WF_vars(ReadAlert) /\ WF_vars(ReadReturn(FALSE))
  /\ FairMutate
  /\ \A k \in Kinds : WF_vars(TickerRuns(k, ~is_running))

(* The tickers running on with shutdown() never called, and one thread that calls
   take_a_break() again and again, on a manager whose counters are at their upper ends;
   the timers expire whatever the count of expiries. A call that holds the lock goes on
   and releases it, a call that waits for the lock need not ever get it, and a callback
   that waits for the lock gets it if the lock stays free. *)
BreakDrift ==
  \/ BreakCall(1, FALSE)
  \/ BreakEnterOn(1, FALSE, FALSE, LowDraws)
  \/ BreakDelay(1, FALSE)
  \/ BreakWakeOn(1, FALSE, FALSE, LowDraws)
  \/ BreakReturn(1, FALSE, FALSE)

NextDrift == BreakDrift \/ Tickers(TRUE)

SpecDrift ==
  /\ InitLater /\ [][NextDrift]_vars
  /\ WF_vars(BreakWakeOn(1, FALSE, FALSE, LowDraws) \/ BreakReturn(1, FALSE, FALSE))
  /\ \A k \in Kinds : WF_vars(\E s \in Slots : TickMutate(k, s))
  /\ \A k \in Kinds : WF_vars(TickerRuns(k, TRUE))

(* The two timer chains alone, the timers expiring whatever the count of expiries. *)
SpecTimers == Init /\ [][Tickers(TRUE)]_vars

(* ----- sanity of the model ----- *)
TypeOK ==
  /\ stress_level \in Int
  /\ boss_alert_level \in Int
  /\ boss_alertness \in Int
  /\ is_running \in BOOLEAN
  /\ lock \in {Free, <<"rd", 0>>} \cup ({"tb"} \X Callers)
  /\ \A k \in Kinds : tm_field[k] \in 0..NSlots
  /\ \A k \in Kinds, s \in Slots : tm[k][s].pc \in {"free", "armed", "acquire", "check", "rearm", "return"}
  /\ \A c \in Callers :
       tb[c].pc \in {"idle", "acquire", "sleep", "reduce", "roll", "pair", "exit", "returned"}
  /\ sd \in {"idle", "cancel_stress", "cancel_alert"}

(* ----- the claims ----- *)
InCallback(k, s) == tm[k][s].pc \in {"acquire", "check", "rearm", "return"}
Armed(k, s) == tm[k][s].pc = "armed" /\ ~tm[k][s].fin
ShutdownReturned == sd_count >= 1

(* C1: in every reachable state, whatever the interleaving of ticker firings,
   take_a_break, current_state and shutdown, 0 <= stress_level <= 100 and
   0 <= boss_alert_level <= 5. *)
C1_CountersInBounds ==
  /\ MIN_STRESS_LEVEL <= stress_level /\ stress_level <= MAX_STRESS_LEVEL
  /\ MIN_BOSS_ALERT_LEVEL <= boss_alert_level /\ boss_alert_level <= MAX_BOSS_ALERT_LEVEL

(* both counters at their lower ends on a manager constructed with a boss_alertness
   above 0: every allowed call has been made, one of them has cut stress_level off at 0,
   shutdown() has returned, and a callback of the alert ticker that expired before has
   passed its with block with boss_alert_level at 0 (the upper ends are those of the
   later state, from which a call that escalates finds boss_alert_level at 5) *)
C1_Witness ==
  /\ stress_level = MIN_STRESS_LEVEL
  /\ boss_alert_level = MIN_BOSS_ALERT_LEVEL
  /\ boss_alertness > MIN_BOSS_ALERTNESS
  /\ calls = MaxCalls
  /\ ShutdownReturned
  /\ \E s \in Slots : tm["alert"][s].pc = "check"

(* C2: once the first shutdown() has returned, no timer is armed, so that no ticker
   callback can begin. *)
C2_NoTimerArmedAfterShutdown ==
  ShutdownReturned => \A k \in Kinds, s \in Slots : ~Armed(k, s)

(* C3: once shutdown() has returned, no ticker callback changes stress_level or
   boss_alert_level, not even a callback that had fired before and was waiting for
   the lock. *)
C3_TickersFrozenAfterShutdown ==
  [][(ShutdownReturned /\ \E k \in Kinds, s \in Slots : tm[k][s].pc = "acquire" /\ tm'[k][s].pc = "check")
       => UNCHANGED <<stress_level, boss_alert_level>>]_vars

(* C4: a shutdown() called after a first one has returned changes nothing: not the
   running flag, not whether a timer is armed or cancelled, not the counters. *)
C4_SecondShutdownChangesNothing ==
  [][(ShutdownReturned /\ sd' # sd) => UNCHANGED <<is_running, tm, stress_level, boss_alert_level>>]_vars

(* the calls in progress that have taken the lock at line 104 and not yet left the with
   block: asleep at line 107, or before line 110, 118 or 125, or about to release it *)
Holding(c) == tb[c].pc \in {"sleep", "reduce", "roll", "pair", "exit"}

(* C5: N concurrent take_a_break() calls on a fresh manager are linearizable: no two
   calls are inside the with block together, and the pair each call returned and the
   final counters are those of running the N calls one after the other, in some order,
   with the same draws. *)
Orders == {p \in [1..NCallers -> Callers] : \A i, j \in 1..NCallers : p[i] = p[j] => i = j}

RECURSIVE Replays(_, _, _, _)
Replays(p, i, s, a) ==
  IF i > NCallers
  THEN s = stress_level /\ a = boss_alert_level
  ELSE LET s2 == clamp(s - tb[p[i]].r, MIN_STRESS_LEVEL, MAX_STRESS_LEVEL)
           a2 == IF tb[p[i]].roll <= boss_alertness
                 THEN clamp(a + 1, MIN_BOSS_ALERT_LEVEL, MAX_BOSS_ALERT_LEVEL)
                 ELSE a
       IN  tb[p[i]].ret = <<s2, a2>> /\ Replays(p, i + 1, s2, a2)

AllBuilt == \A c \in Callers : tb[c].pc \in {"exit", "returned"}
AllReturned == \A c \in Callers : tb[c].pc = "returned"

C5_BreaksLinearizable ==
  /\ Cardinality({c \in Callers : Holding(c)}) <= 1
  /\ AllBuilt =>
       \E p \in Orders : Replays(p, 1, DEFAULT_STRESS_LEVEL, DEFAULT_BOSS_ALERT_LEVEL)

(* every call has returned, with different pairs, so that the order matters; one of
   them was invoked before another call raised boss_alert_level and took the lock after
   it, so that the two were in progress together *)
C5_Witness ==
  /\ AllReturned
  /\ \E c, d \in Callers : tb[c].ret # tb[d].ret
  /\ \E c \in Callers : tb[c].at_call < tb[c].found[2]

(* C6: a call that finds boss_alert_level = 5 when it takes the lock changes no counter
   and does not return before the whole of MAX_ALERT_DELAY has passed. *)
C6_DelayGate ==
  \A c \in Callers :
    (Holding(c) /\ tb[c].found[2] >= MAX_BOSS_ALERT_LEVEL) =>
      \/ /\ tb[c].pc = "sleep"
         /\ <<stress_level, boss_alert_level>> = tb[c].found
      \/ /\ tb[c].pc = "exit"
         /\ tb[c].slept = MAX_ALERT_DELAY
         /\ tb[c].elapsed >= MAX_ALERT_DELAY

(* a call that found 5 has slept and is about to return *)
C6_Witness ==
  \E c \in Callers :
    /\ tb[c].pc = "exit"
    /\ tb[c].found[2] = MAX_BOSS_ALERT_LEVEL
    /\ tb[c].slept = MAX_ALERT_DELAY

(* C7 as stated: a call invoked while boss_alert_level < 5 returns with no delay having
   passed between its invocation and its return. *)
C7_NoDelayFromInvocation ==
  \A c \in Callers :
    (tb[c].pc = "exit" /\ tb[c].at_call < MAX_BOSS_ALERT_LEVEL) => tb[c].elapsed = 0

(* C7 amended: a call that finds boss_alert_level < 5 when it takes the lock does not
   sleep, and a call sleeps only if it found boss_alert_level at its maximum. *)
C7_NoDelayFromGuard ==
  \A c \in Callers :
    /\ (Holding(c) /\ tb[c].found[2] < MAX_BOSS_ALERT_LEVEL) =>
         (tb[c].pc = "exit" /\ tb[c].slept = 0)
    /\ (Holding(c) /\ (tb[c].pc = "sleep" \/ tb[c].slept > 0)) =>
         tb[c].found[2] = MAX_BOSS_ALERT_LEVEL

(* a call that found 4 is about to return 5 without having slept *)
C7_Witness ==
  \E c \in Callers :
    /\ tb[c].pc = "exit"
    /\ tb[c].found[2] = MAX_BOSS_ALERT_LEVEL - 1
    /\ tb[c].ret[2] = MAX_BOSS_ALERT_LEVEL
    /\ tb[c].slept = 0

(* C8: with boss_alertness = 0, also from a constructor argument below 0, no
   take_a_break() raises boss_alert_level: it is 0 in every state. *)
C8_NeverEscalates ==
  (arg_alertness <= MIN_BOSS_ALERTNESS) =>
    (boss_alertness = MIN_BOSS_ALERTNESS /\ boss_alert_level = DEFAULT_BOSS_ALERT_LEVEL)

(* an argument below 0, every allowed call made and returned, a ticker fired *)
C8_Witness ==
  /\ arg_alertness < MIN_BOSS_ALERTNESS
  /\ calls = MaxCalls
  /\ \A c \in Callers : tb[c].pc = "idle"
  /\ fires > 0

(* C9: with boss_alertness = 100, also from a constructor argument above 100, every
   take_a_break() sets boss_alert_level to min(v + 1, 5), v the value it found when it
   took the lock, whatever the draw. *)
C9_AlwaysEscalates ==
  (arg_alertness >= MAX_BOSS_ALERTNESS) =>
    /\ boss_alertness = MAX_BOSS_ALERTNESS
    /\ \A c \in Callers :
         tb[c].pc = "exit" =>
           /\ tb[c].ret[2] = Min2(tb[c].found[2] + 1, MAX_BOSS_ALERT_LEVEL)
           /\ boss_alert_level = tb[c].ret[2]

(* an argument above 100 and a call that found 0 is about to return 1 *)
C9_Witness ==
  /\ arg_alertness > MAX_BOSS_ALERTNESS
  /\ \E c \in Callers :
       /\ tb[c].pc = "exit"
       /\ tb[c].found[2] = DEFAULT_BOSS_ALERT_LEVEL
       /\ tb[c].ret[2] = DEFAULT_BOSS_ALERT_LEVEL + 1

(* C10: under fair scheduling every take_a_break() call gets the lock, and every call
   that has the lock releases it and returns, with or without the delay and before or
   after shutdown(). *)
C10_BreakReturns ==
  \A c \in Callers :
    /\ (tb[c].pc = "acquire") ~> Holding(c)
    /\ Holding(c) ~> (tb[c].pc = "idle" /\ lock # <<"tb", c>>)

(* after shutdown() a call sleeps with the lock while another call waits for it *)
C10_Witness ==
  /\ ShutdownReturned
  /\ \E c, d \in Callers : tb[c].pc = "sleep" /\ tb[d].pc = "acquire"

(* C11 as stated: between the invocation of a take_a_break() call and its return at most
   one delay period passes, also with other calls running concurrently. *)
C11_AtMostOneDelay ==
  \A c \in Callers : tb[c].pc = "exit" => tb[c].elapsed <= MAX_ALERT_DELAY

(* C11 amended: a call sleeps at most one delay period itself, and only after it found
   boss_alert_level at 5; the time between its invocation and its return is its own
   sleep and at most one delay period for each other call made so far, behind which it
   may have waited for the lock. *)
C11_OneDelayPerCall ==
  \A c \in Callers :
    tb[c].pc = "exit" =>
      /\ tb[c].slept \in {0, MAX_ALERT_DELAY}
      /\ tb[c].slept <= tb[c].elapsed
      /\ tb[c].elapsed <= tb[c].slept + (calls - 1) * MAX_ALERT_DELAY

(* a call that waited through another call's delay and then slept its own *)
C11_Witness ==
  \E c \in Callers :
    /\ tb[c].pc = "exit"
    /\ tb[c].slept = MAX_ALERT_DELAY
    /\ tb[c].elapsed = MAX_ALERT_DELAY + MAX_ALERT_DELAY

(* C12: current_state() is a pure read of a consistent snapshot: a step of the reader
   changes no counter, not the running flag and no timer; what the reader has read is
   what the manager holds at that moment, both values together; and a snapshot that
   has been returned is not altered by what happens later. *)
ReaderActs == rd' # rd

C12_PureConsistentSnapshot ==
  /\ [](rd.pc = "alert" => (lock = <<"rd", 0>> /\ rd.snap = <<stress_level>>))
  /\ [](rd.pc = "exit" => (lock = <<"rd", 0>> /\ rd.snap = <<stress_level, boss_alert_level>>))
  /\ [][ReaderActs => UNCHANGED <<stress_level, boss_alert_level, is_running, tm, tm_field>>]_vars
  /\ [][(rd.pc = "idle" /\ rd'.pc = "idle") => rd'.snap = rd.snap]_vars

(* the reader holds a returned snapshot that the counters have since moved away from,
   in both values *)
C12_Witness ==
  /\ rd.pc = "idle"
  /\ rd.snap # None
  /\ rd.snap[1] # stress_level
  /\ rd.snap[2] # boss_alert_level

(* C13: a take_a_break() call in its delay holds the lock: until it has updated the
   counters and released the lock, no ticker callback, no other take_a_break() and no
   current_state() reads or writes a counter, and both counters stay as the call found
   them for the whole delay. *)
Sleeping(c) == tb[c].pc = "sleep"
AtLock(k) == {s \in Slots : tm[k][s].pc = "acquire"}

C13_LockHeldAcrossDelay ==
  /\ [](\A c \in Callers :
          Sleeping(c) =>
            /\ lock = <<"tb", c>>
            /\ <<stress_level, boss_alert_level>> = tb[c].found
            /\ rd.pc = "idle"
            /\ \A d \in Callers \ {c} : ~Holding(d))
  /\ [][(\E c \in Callers : Sleeping(c) /\ tb'[c].pc = "sleep") =>
          /\ UNCHANGED <<stress_level, boss_alert_level, lock, rd>>
          /\ \A k \in Kinds : Cardinality(AtLock(k)) <= Cardinality(AtLock(k))'
          /\ \A d \in Callers : tb[d].pc = "acquire" => tb'[d].pc = "acquire"]_vars
  /\ [][(\E c \in Callers : Holding(c) /\ lock' # lock) =>
          (\E c \in Callers : tb[c].pc = "exit" /\ tb'[c].pc = "idle" /\ lock' = Free)]_vars

(* a call sleeps while a callback of either kind and another call wait for the lock *)
C13_Witness ==
  \E c, d \in Callers :
    /\ Sleeping(c)
    /\ tb[d].pc = "acquire"
    /\ \E s \in Slots : tm["alert"][s].pc = "acquire"

(* a callback of kind k passes through its with block in this step *)
Ticks(k) == \E s \in Slots : tm[k][s].pc = "acquire" /\ tm'[k][s].pc = "check"

(* C14: a stress-ticker firing sets stress_level to min(stress_level + 1, 100) and
   leaves boss_alert_level as it is: one more below 100, nothing at 100, never more than
   one however long the callback had to wait. *)
C14_StressTick ==
  [][Ticks("stress") =>
       /\ stress_level' = Min2(stress_level + 1, MAX_STRESS_LEVEL)
       /\ stress_level' - stress_level \in {0, 1}
       /\ (stress_level < MAX_STRESS_LEVEL => stress_level' = stress_level + 1)
       /\ boss_alert_level' = boss_alert_level]_vars

(* the stress callback has just added 1 to a fresh manager's 50 *)
C14_Witness ==
  /\ \E s \in Slots : tm["stress"][s].pc = "check"
  /\ calls = 0
  /\ stress_level = DEFAULT_STRESS_LEVEL + 1

(* C15: an alert-ticker firing sets boss_alert_level to max(boss_alert_level - 1, 0) and
   leaves stress_level as it is: one less above 0, nothing at 0. *)
C15_AlertTick ==
  [][Ticks("alert") =>
       /\ boss_alert_level' = Max2(boss_alert_level - 1, MIN_BOSS_ALERT_LEVEL)
       /\ (boss_alert_level > MIN_BOSS_ALERT_LEVEL => boss_alert_level' = boss_alert_level - 1)
       /\ stress_level' = stress_level]_vars

(* the alert callback has just taken 1 off a boss_alert_level of 5 *)
C15_Witness ==
  /\ \E s \in Slots : tm["alert"][s].pc = "check"
  /\ calls = 0
  /\ stress_level = MAX_STRESS_LEVEL
  /\ boss_alert_level = MAX_BOSS_ALERT_LEVEL - 1

(* C16: a take_a_break() with draw r that finds stress_level s under the lock sets
   stress_level to max(0, s - r): it never raises it, lowers it whenever s > 0, and the
   stress value it returns is the one stored when it releases the lock. *)
C16_StressReduction ==
  \A c \in Callers :
    tb[c].pc = "exit" =>
      /\ tb[c].r \in RandLow..RandHigh
      /\ tb[c].ret[1] = Max2(MIN_STRESS_LEVEL, tb[c].found[1] - tb[c].r)
      /\ tb[c].ret[1] <= tb[c].found[1]
      /\ (tb[c].found[1] > MIN_STRESS_LEVEL => tb[c].ret[1] < tb[c].found[1])
      /\ stress_level = tb[c].ret[1]

(* a call that found a stress_level above 0 and boss_alert_level at 5 has slept its
   delay, drawn a value between the ends of randint's range that is larger than the
   stress_level it found, and is about to return a stress_level cut off at 0 *)
C16_Witness ==
  /\ tb[1].pc = "exit"
  /\ tb[1].slept = MAX_ALERT_DELAY
  /\ tb[1].found[1] > MIN_STRESS_LEVEL
  /\ tb[1].r > tb[1].found[1]
  /\ tb[1].r \notin {RandLow, RandHigh}
  /\ tb[1].ret[1] = MIN_STRESS_LEVEL

(* C17: of each kind no two callbacks are active at the same time and at most one
   timer is armed. *)
Active(k) == {s \in Slots : InCallback(k, s)}
Waiting(k) == {s \in Slots : tm[k][s].pc = "armed"}

C17_OneCallbackPerKind ==
  \A k \in Kinds : Cardinality(Active(k)) <= 1 /\ Cardinality(Waiting(k)) <= 1

(* C18: once shutdown() has been called, under fair scheduling both tickers stop for
   good: from some state on no timer is armed and no callback runs; and a callback that
   reads _is_running as false does not re-arm its timer. *)
Quiet == \A k \in Kinds, s \in Slots : tm[k][s].pc = "free"

C18_QuiescentAfterShutdown ==
  /\ <>[](is_running \/ Quiet)
  /\ [][\A k \in Kinds, s \in Slots :
          (tm[k][s].pc = "check" /\ ~is_running) => tm'[k][s].pc # "rearm"]_vars

(* shutdown() has returned, and the timer a callback armed after it has expired *)
C18_Witness ==
  /\ ShutdownReturned
  /\ \E k \in Kinds, s \in Slots : tm[k][s].pc = "acquire" /\ s # 1

(* C19: a take_a_break() call that took the delay returns boss_alert_level = 5: the level
   is 5 all through the delay, whatever callback waits, and the escalation can only
   clamp at 5; boss_alert_level leaves 5 only by a step of the alert callback in its
   with block. *)
C19_DelayedCallReturnsMax ==
  /\ [](\A c \in Callers :
          /\ Sleeping(c) => boss_alert_level = MAX_BOSS_ALERT_LEVEL
          /\ (tb[c].pc = "exit" /\ tb[c].slept > 0) =>
                /\ tb[c].found[2] = MAX_BOSS_ALERT_LEVEL
                /\ tb[c].ret[2] = MAX_BOSS_ALERT_LEVEL
                /\ boss_alert_level = MAX_BOSS_ALERT_LEVEL)
  /\ [][(boss_alert_level = MAX_BOSS_ALERT_LEVEL /\ boss_alert_level' # MAX_BOSS_ALERT_LEVEL) =>
          /\ Ticks("alert")
          /\ lock = Free
          /\ boss_alert_level' = MAX_BOSS_ALERT_LEVEL - 1]_vars

(* a call that slept is about to return 5 while the alert callback waits for the lock *)
C19_Witness ==
  /\ \E c \in Callers :
       /\ tb[c].pc = "exit"
       /\ tb[c].slept = MAX_ALERT_DELAY
       /\ tb[c].ret[2] = MAX_BOSS_ALERT_LEVEL
  /\ \E s \in Slots : tm["alert"][s].pc = "acquire"

(* C20: with shutdown() not called both tickers go on firing for ever, so that under
   fair scheduling, once no more take_a_break() is called, stress_level comes to 100 and
   boss_alert_level to 0 and they stay there; a take_a_break() that sleeps with the
   lock held puts a callback off but does not stop it. *)
Ticked(k) == \E s \in Slots : tm[k][s].pc = "check"

C20_DriftIsLive ==
  /\ \A k \in Kinds : []<>Ticked(k)
  /\ <>[](stress_level = MAX_STRESS_LEVEL /\ boss_alert_level = MIN_BOSS_ALERT_LEVEL)

(* both callbacks wait for the lock behind the last call, which is in its delay and has
   found a stress_level that an earlier call has lowered *)
C20_Witness ==
  /\ Sleeping(1)
  /\ calls = MaxCalls
  /\ stress_level < MAX_STRESS_LEVEL
  /\ \A k \in Kinds : \E s \in Slots : tm[k][s].pc = "acquire"

====
